---- MODULE Spec2Model ----
(***************************************************************************)
(* Model of panel/ss.py: the scaffolder that creates the admin panel's     *)
(* app directory tree.  The state is the filesystem below the working      *)
(* directory plus the position of the running script; one action per       *)
(* filesystem call of create_app_directory_structure, in the code's order. *)
(***************************************************************************)
EXTENDS Integers, Sequences, FiniteSets, TLC

VARIABLES
    fs,          \* the filesystem: path -> "none" | "dir" | "empty" | "data"
    pc,          \* index in Steps of the next filesystem call of the run
    status,      \* "idle" | "running" | "done" | "failed" : the current process
    stdout,      \* what the current process has printed
    stderr,      \* the exception the current process died of, "" if none
    exitCode,    \* exit status of the current process, -1 while it has none
    fsStart,     \* the filesystem when the current run started
    prevStatus,  \* the status the previous run ended with ("idle" if none)
    faults       \* environment failures injected so far

vars == <<fs, pc, status, stdout, stderr, exitCode, fsStart, prevStatus, faults>>

\* ------------------------------------------------------------------ bounds
MaxPre == 1       \* entries present on disk before the first run
PreSteps == 25    \* they lie on the paths of the first PreSteps calls of the script
MaxFaults == 1    \* environment failures (EACCES, ENOSPC, ...) in one behaviour

\* ------------------------------------------------------------------ paths
\* A path is the tuple of its components; os.path.join appends a component.
Join(p, name) == Append(p, name)

\* os.path.split(p)[0]
Parent(p) == SubSeq(p, 1, Len(p) - 1)

\* all non-empty prefixes of p, p included
Prefixes(p) == {SubSeq(p, 1, i) : i \in 1..Len(p)}

IsPrefix(a, p) == Len(a) <= Len(p) /\ SubSeq(p, 1, Len(a)) = a

FileKinds == {"empty", "data"}
Kinds == {"none", "dir"} \cup FileKinds

\* ------------------------------------------------------- the literal tables
app_dir == <<"panel", "app">>

app_files == <<"layout.tsx", "page.tsx", "loading.tsx", "error.tsx",
               "not-found.tsx", "globals.css">>

api_dir == Join(app_dir, "api")

auth_dir == Join(app_dir, "(auth)")

auth_subdirs == <<"login", "forgot-password", "reset-password">>

dashboard_dir == Join(app_dir, "(dashboard)")

dashboard_subdirs_bad ==
    << <<"dashboard", <<"page.tsx", "loading.tsx">> >>,
       <<"users", <<"page.tsx", "loading.tsx">> >>,
       <<"posts", <<"page.tsx", "loading.tsx">> >>,
       <<"comments", <<"page.tsx", "loading.tsx">> >>,
       <<"stories", <<"page.tsx", "loading.tsx">> >>,
       <<"groups", <<"page.tsx", "loading.tsx">> >>,
       <<"messages", <<"page.tsx", "loading.tsx">> >>,
       <<"reports", <<"page.tsx", "loading.tsx">> >>,
       <<"media", <<"page.tsx", "loading.tsx">> >>,
       <<"analytics", <<"page.tsx", "loading.tsx">> >>,
       <<"moderation", <<"page.tsx", "loading.tsx">> >>,
       <<"notifications", <<"page.tsx", "loading.tsx">> >>,
       <<"settings", <<"page.tsx", "loading.tsx">> >> >>

dashboard_subdirs ==
    << <<"dashboard", <<"page.tsx">> >>,
       <<"users", <<"page.tsx", "loading.tsx">> >>,
       <<"posts", <<"page.tsx", "loading.tsx">> >>,
       <<"comments", <<"page.tsx", "loading.tsx">> >>,
       <<"stories", <<"page.tsx", "loading.tsx">> >>,
       <<"groups", <<"page.tsx", "loading.tsx">> >>,
       <<"messages", <<"page.tsx", "loading.tsx">> >>,
       <<"reports", <<"page.tsx", "loading.tsx">> >>,
       <<"media", <<"page.tsx", "loading.tsx">> >>,
       <<"analytics", <<"page.tsx", "loading.tsx">> >>,
       <<"moderation", <<"page.tsx", "loading.tsx">> >>,
       <<"notifications", <<"page.tsx", "loading.tsx">> >>,
       <<"settings", <<"page.tsx", "loading.tsx">> >> >>

\* ------------------------------------------- the run as a sequence of calls
MkStep(p) == [op |-> "makedirs", path |-> p]

CfStep(p) == [op |-> "create_file", path |-> p]

\* lines 12-24: the root directory, then its files
RootSteps ==
    <<MkStep(app_dir)>>
    \o [i \in 1..Len(app_files) |-> CfStep(Join(app_dir, app_files[i]))]

\* lines 27-31
ApiSteps ==
    << MkStep(Join(api_dir, "auth")),
       CfStep(Join(Join(api_dir, "auth"), "route.ts")),
       MkStep(Join(api_dir, "upload")),
       CfStep(Join(Join(api_dir, "upload"), "route.ts")) >>

AuthSteps_bad ==
    <<CfStep(Join(auth_dir, "layout.tsx"))>>
    \o [i \in 1..(2 * Len(auth_subdirs)) |->
          IF i % 2 = 1
             THEN MkStep(Join(auth_dir, auth_subdirs[(i + 1) \div 2]))
             ELSE CfStep(Join(Join(auth_dir, auth_subdirs[i \div 2]), "page.tsx"))]

\* lines 34-43: each subdirectory and its page, then the layout of (auth)
AuthSteps ==
    [i \in 1..(2 * Len(auth_subdirs)) |->
          IF i % 2 = 1
             THEN MkStep(Join(auth_dir, auth_subdirs[(i + 1) \div 2]))
             ELSE CfStep(Join(Join(auth_dir, auth_subdirs[i \div 2]), "page.tsx"))]
    \o <<CfStep(Join(auth_dir, "layout.tsx"))>>

\* lines 46-48
DashboardSteps ==
    <<MkStep(dashboard_dir), CfStep(Join(dashboard_dir, "layout.tsx"))>>

RECURSIVE SubdirSteps_firstfile(_)
SubdirSteps_firstfile(i) ==
    IF i > Len(dashboard_subdirs) THEN <<>>
    ELSE LET subdir_path == Join(dashboard_dir, dashboard_subdirs[i][1])
             files == dashboard_subdirs[i][2]
         IN  <<MkStep(subdir_path), CfStep(Join(subdir_path, files[1]))>>
             \o SubdirSteps_firstfile(i + 1)

\* lines 67-71: the loop over dashboard_subdirs, from entry i on
RECURSIVE SubdirSteps(_)
SubdirSteps(i) ==
    IF i > Len(dashboard_subdirs) THEN <<>>
    ELSE LET subdir_path == Join(dashboard_dir, dashboard_subdirs[i][1])
             files == dashboard_subdirs[i][2]
         IN  <<MkStep(subdir_path)>>
             \o [j \in 1..Len(files) |-> CfStep(Join(subdir_path, files[j]))]
             \o SubdirSteps(i + 1)

\* every filesystem call of create_app_directory_structure, in order
Steps == RootSteps \o ApiSteps \o AuthSteps \o DashboardSteps \o SubdirSteps(1)

NSteps == Len(Steps)

\* ------------------------------------------------------- the path universe
\* The table of spec section 6 / the literals of the code: the directories
\* passed to makedirs and the files passed to create_file.
TableDirs ==
    {app_dir, Join(api_dir, "auth"), Join(api_dir, "upload"), dashboard_dir}
    \cup {Join(auth_dir, auth_subdirs[i]) : i \in 1..Len(auth_subdirs)}
    \cup {Join(dashboard_dir, dashboard_subdirs[i][1]) : i \in 1..Len(dashboard_subdirs)}

TableFiles ==
    {Join(app_dir, app_files[i]) : i \in 1..Len(app_files)}
    \cup {Join(Join(api_dir, "auth"), "route.ts"), Join(Join(api_dir, "upload"), "route.ts")}
    \cup {Join(Join(auth_dir, auth_subdirs[i]), "page.tsx") : i \in 1..Len(auth_subdirs)}
    \cup {Join(auth_dir, "layout.tsx"), Join(dashboard_dir, "layout.tsx")}
    \cup UNION {{Join(Join(dashboard_dir, dashboard_subdirs[i][1]), dashboard_subdirs[i][2][j])
                   : j \in 1..Len(dashboard_subdirs[i][2])}
                : i \in 1..Len(dashboard_subdirs)}

\* directories that exist after a run only as ancestors of table entries
AncestorDirs == (UNION {Prefixes(Parent(p)) : p \in TableDirs \cup TableFiles}) \ TableDirs

\* paths the script has no business with
ForeignPaths ==
    { Join(Join(dashboard_dir, "dashboard"), "loading.tsx"),
      Join(api_dir, "route.ts"),
      <<"panel", "README.md">> }

Paths == TableDirs \cup TableFiles \cup AncestorDirs \cup ForeignPaths

\* ----------------------------------------------------- filesystem calls
Exists(f, p) == f[p] # "none"

IsDir(f, p) == f[p] = "dir"

\* os.mkdir(name); fault: the environment refuses the call
mkdir(f, name, fault) ==
    IF fault THEN [fs |-> f, err |-> "OSError"]
    ELSE IF Len(name) >= 2 /\ ~Exists(f, Parent(name))
        THEN [fs |-> f, err |-> "FileNotFoundError"]
    ELSE IF Len(name) >= 2 /\ ~IsDir(f, Parent(name))
        THEN [fs |-> f, err |-> "NotADirectoryError"]
    ELSE IF Exists(f, name)
        THEN [fs |-> f, err |-> "FileExistsError"]
    ELSE [fs |-> [f EXCEPT ![name] = "dir"], err |-> "ok"]

\* os.makedirs(name, exist_ok=True) as the standard library defines it: create
\* the missing ancestors first (a FileExistsError of that recursion is
\* ignored), then mkdir(name); an OSError of that mkdir is swallowed when name
\* is a directory.  failAt numbers the mkdir call the environment refuses
\* (0: none); calls counts the mkdir calls made.
RECURSIVE makedirs_noexist(_, _, _)
makedirs_noexist(f, name, failAt) ==
    LET head == Parent(name)
        r == IF Len(name) >= 2 /\ ~Exists(f, head)
                THEN makedirs_noexist(f, head, failAt)
                ELSE [fs |-> f, err |-> "ok", calls |-> 0]
    IN  IF r.err \notin {"ok", "FileExistsError"} THEN r
        ELSE LET m == mkdir(r.fs, name, failAt = r.calls + 1)
             IN  [fs |-> m.fs, err |-> m.err, calls |-> r.calls + 1]

RECURSIVE makedirs_anyerr(_, _, _)
makedirs_anyerr(f, name, failAt) ==
    LET head == Parent(name)
        r == IF Len(name) >= 2 /\ ~Exists(f, head)
                THEN makedirs_anyerr(f, head, failAt)
                ELSE [fs |-> f, err |-> "ok", calls |-> 0]
    IN  IF r.err \notin {"ok", "FileExistsError"} THEN r
        ELSE LET m == mkdir(r.fs, name, failAt = r.calls + 1)
             IN  [fs |-> m.fs, err |-> "ok", calls |-> r.calls + 1]

RECURSIVE makedirs_clobber(_, _, _)
makedirs_clobber(f, name, failAt) ==
    LET head == Parent(name)
        r == IF Len(name) >= 2 /\ ~Exists(f, head)
                THEN makedirs_clobber(f, head, failAt)
                ELSE [fs |-> f, err |-> "ok", calls |-> 0]
    IN  IF r.err \notin {"ok", "FileExistsError"} THEN r
        ELSE LET m == mkdir(r.fs, name, failAt = r.calls + 1)
             IN  IF m.err = "ok" \/ IsDir(r.fs, name)
                    THEN [fs |-> m.fs, err |-> "ok", calls |-> r.calls + 1]
                 ELSE IF m.err = "FileExistsError"
                    THEN [fs |-> [r.fs EXCEPT ![name] = "dir"], err |-> "ok",
                          calls |-> r.calls + 1]
                 ELSE [fs |-> m.fs, err |-> m.err, calls |-> r.calls + 1]

RECURSIVE makedirs(_, _, _)
makedirs(f, name, failAt) ==
    LET head == Parent(name)
        r == IF Len(name) >= 2 /\ ~Exists(f, head)
                THEN makedirs(f, head, failAt)
                ELSE [fs |-> f, err |-> "ok", calls |-> 0]
    IN  IF r.err \notin {"ok", "FileExistsError"} THEN r
        ELSE LET m == mkdir(r.fs, name, failAt = r.calls + 1)
             IN  IF m.err = "ok" \/ IsDir(r.fs, name)
                    THEN [fs |-> m.fs, err |-> "ok", calls |-> r.calls + 1]
                    ELSE [fs |-> m.fs, err |-> m.err, calls |-> r.calls + 1]

create_file_excl(f, path, fault) ==
    IF fault THEN [fs |-> f, err |-> "OSError"]
    ELSE IF ~Exists(f, Parent(path)) THEN [fs |-> f, err |-> "FileNotFoundError"]
    ELSE IF ~IsDir(f, Parent(path)) THEN [fs |-> f, err |-> "NotADirectoryError"]
    ELSE IF Exists(f, path) THEN [fs |-> f, err |-> "FileExistsError"]
    ELSE [fs |-> [f EXCEPT ![path] = "empty"], err |-> "ok"]

create_file_keep(f, path, fault) ==
    IF fault THEN [fs |-> f, err |-> "OSError"]
    ELSE IF ~Exists(f, Parent(path)) THEN [fs |-> f, err |-> "FileNotFoundError"]
    ELSE IF ~IsDir(f, Parent(path)) THEN [fs |-> f, err |-> "NotADirectoryError"]
    ELSE IF IsDir(f, path) THEN [fs |-> f, err |-> "IsADirectoryError"]
    ELSE IF Exists(f, path) THEN [fs |-> f, err |-> "ok"]
    ELSE [fs |-> [f EXCEPT ![path] = "empty"], err |-> "ok"]

\* create_file(path): open(path, 'w') creates the file or truncates it, and
\* the with block closes it without writing
create_file(f, path, fault) ==
    IF fault THEN [fs |-> f, err |-> "OSError"]
    ELSE IF ~Exists(f, Parent(path)) THEN [fs |-> f, err |-> "FileNotFoundError"]
    ELSE IF ~IsDir(f, Parent(path)) THEN [fs |-> f, err |-> "NotADirectoryError"]
    ELSE IF IsDir(f, path) THEN [fs |-> f, err |-> "IsADirectoryError"]
    ELSE [fs |-> [f EXCEPT ![path] = "empty"], err |-> "ok"]

\* ------------------------------------------------------------ the process
Message == "App directory structure created successfully!"

\* the interpreter exits 0 at the end of the script, 1 on an uncaught exception
ExitStatus(err) == IF err = "ok" THEN 0 ELSE 1

ScaffoldReturned_early == pc >= NSteps

\* create_app_directory_structure() has returned: line 75 is next
ScaffoldReturned == pc = NSteps + 1

AfterCall_rollback(r) ==
    /\ fs' = IF r.err = "ok" THEN r.fs ELSE fsStart
    /\ IF r.err = "ok"
          THEN /\ pc' = pc + 1
               /\ UNCHANGED <<status, stderr, exitCode>>
          ELSE /\ status' = "failed"
               /\ stderr' = r.err
               /\ exitCode' = ExitStatus(r.err)
               /\ UNCHANGED pc
    /\ UNCHANGED <<stdout, fsStart, prevStatus>>

\* the state after a filesystem call with result r: the next call, or the
\* uncaught exception ends the process (nothing is undone)
AfterCall(r) ==
    /\ fs' = r.fs
    /\ IF r.err = "ok"
          THEN /\ pc' = pc + 1
               /\ UNCHANGED <<status, stderr, exitCode>>
          ELSE /\ status' = "failed"
               /\ stderr' = r.err
               /\ exitCode' = ExitStatus(r.err)
               /\ UNCHANGED pc
    /\ UNCHANGED <<stdout, fsStart, prevStatus>>

AtCall(op) == status = "running" /\ pc <= NSteps /\ Steps[pc].op = op

\* python ss.py: a new process
StartRun ==
    /\ status # "running"
    /\ prevStatus' = status
    /\ status' = "running"
    /\ pc' = 1
    /\ stdout' = <<>>
    /\ stderr' = ""
    /\ exitCode' = -1
    /\ fsStart' = fs
    /\ UNCHANGED <<fs, faults>>

\* an os.makedirs(..., exist_ok=True) call of the script
Makedirs ==
    /\ AtCall("makedirs")
    /\ AfterCall(makedirs(fs, Steps[pc].path, 0))
    /\ UNCHANGED faults

\* a create_file(...) call of the script
CreateFile ==
    /\ AtCall("create_file")
    /\ AfterCall(create_file(fs, Steps[pc].path, FALSE))
    /\ UNCHANGED faults

\* line 75
PrintMessage ==
    /\ status = "running"
    /\ ScaffoldReturned
    /\ stdout' = Append(stdout, Message)
    /\ status' = "done"
    /\ exitCode' = ExitStatus("ok")
    /\ UNCHANGED <<fs, pc, stderr, fsStart, prevStatus, faults>>

\* an os.makedirs call one of whose mkdir calls the environment refuses
MakedirsFault ==
    /\ AtCall("makedirs")
    /\ faults < MaxFaults
    /\ \E k \in 1..makedirs(fs, Steps[pc].path, 0).calls :
          AfterCall(makedirs(fs, Steps[pc].path, k))
    /\ faults' = faults + 1

\* a create_file call whose open the environment refuses
CreateFileFault ==
    /\ AtCall("create_file")
    /\ faults < MaxFaults
    /\ AfterCall(create_file(fs, Steps[pc].path, TRUE))
    /\ faults' = faults + 1

\* ------------------------------------------------------- the environment
\* the entries that make the failed call fail: a file where the call needs a
\* directory, or a directory where it needs a file
Blockers ==
    LET s == Steps[pc]
    IN  {q \in Prefixes(s.path) :
            \/ fs[q] \in FileKinds /\ (s.op = "makedirs" \/ q # s.path)
            \/ fs[q] = "dir" /\ s.op = "create_file" /\ q = s.path}

\* between two runs the user removes what blocked the failed run
RemoveBlocker ==
    /\ status = "failed"
    /\ \E b \in Blockers :
          fs' = [p \in Paths |-> IF IsPrefix(b, p) THEN "none" ELSE fs[p]]
    /\ UNCHANGED <<pc, status, stdout, stderr, exitCode, fsStart, prevStatus, faults>>

\* ------------------------------------------------------------ initial states
CleanFs == [p \in Paths |-> "none"]

\* a filesystem is a tree: what exists lies in a directory
Consistent(f) == \A p \in Paths : (Exists(f, p) /\ Len(p) >= 2) => IsDir(f, Parent(p))

NoEntry == <<>>

\* where an entry may lie before the first run: on the paths of the first
\* PreSteps calls (the calls after them repeat the loop body of lines 67-71
\* on further subdirectories), in the directories above them, or elsewhere
PrePaths ==
    (UNION {Prefixes(Steps[i].path) : i \in 1..(IF PreSteps < NSteps THEN PreSteps ELSE NSteps)})
    \cup ForeignPaths

PreEntries == {NoEntry} \cup (PrePaths \X {"dir", "empty", "data"})

\* the filesystem holding the entries pre (and the directories they lie in)
PreFs(pre) ==
    [p \in Paths |->
        IF \E i \in DOMAIN pre : pre[i] # NoEntry /\ pre[i][1] = p
           THEN LET i == CHOOSE i \in DOMAIN pre : pre[i] # NoEntry /\ pre[i][1] = p
                IN  pre[i][2]
        ELSE IF \E i \in DOMAIN pre : pre[i] # NoEntry /\ IsPrefix(p, pre[i][1])
           THEN "dir"
        ELSE "none"]

InitProcess ==
    /\ pc = 1
    /\ status = "idle"
    /\ stdout = <<>>
    /\ stderr = ""
    /\ exitCode = -1
    /\ prevStatus = "idle"
    /\ faults = 0

\* before the first run the disk holds at most MaxPre entries of any kind
Init ==
    /\ \E pre \in [1..MaxPre -> PreEntries] :
          /\ \A i, j \in 1..MaxPre :
                (i < j /\ pre[i] # NoEntry /\ pre[j] # NoEntry) => pre[i][1] # pre[j][1]
          /\ Consistent(PreFs(pre))
          /\ fs = PreFs(pre)
    /\ fsStart = fs
    /\ InitProcess

\* the run starts on a clean disk
InitClean ==
    /\ fs = CleanFs
    /\ fsStart = fs
    /\ InitProcess

Next == StartRun \/ Makedirs \/ CreateFile \/ PrintMessage \/ RemoveBlocker

NextFault ==
    StartRun \/ Makedirs \/ CreateFile \/ PrintMessage \/ MakedirsFault \/ CreateFileFault

\* runs whose calls fail only for what is on the disk
Spec == Init /\ [][Next]_vars

\* runs in which the environment may also refuse a call
SpecFault == InitClean /\ [][NextFault]_vars

TypeOK ==
    /\ fs \in [Paths -> Kinds]
    /\ pc \in 1..(NSteps + 1)
    /\ status \in {"idle", "running", "done", "failed"}
    /\ exitCode \in {-1, 0, 1}
    /\ faults \in 0..MaxFaults
    /\ Consistent(fs)

\* ------------------------------------------------ the table of the spec
\* Section 6 of the specification, written out: the directories and files a
\* run is to produce, and the directories their paths pass through.
ListedSubdirs ==
    {"dashboard", "users", "posts", "comments", "stories", "groups", "messages",
     "reports", "media", "analytics", "moderation", "notifications", "settings"}

ListedDirs ==
    { <<"panel", "app">>,
      <<"panel", "app", "api", "auth">>,
      <<"panel", "app", "api", "upload">>,
      <<"panel", "app", "(auth)", "login">>,
      <<"panel", "app", "(auth)", "forgot-password">>,
      <<"panel", "app", "(auth)", "reset-password">>,
      <<"panel", "app", "(dashboard)">> }
    \cup {<<"panel", "app", "(dashboard)", d>> : d \in ListedSubdirs}

ListedFiles ==
    {<<"panel", "app", n>> : n \in {"layout.tsx", "page.tsx", "loading.tsx",
                                     "error.tsx", "not-found.tsx", "globals.css"}}
    \cup { <<"panel", "app", "api", "auth", "route.ts">>,
           <<"panel", "app", "api", "upload", "route.ts">>,
           <<"panel", "app", "(auth)", "login", "page.tsx">>,
           <<"panel", "app", "(auth)", "forgot-password", "page.tsx">>,
           <<"panel", "app", "(auth)", "reset-password", "page.tsx">>,
           <<"panel", "app", "(auth)", "layout.tsx">>,
           <<"panel", "app", "(dashboard)", "layout.tsx">> }
    \cup {<<"panel", "app", "(dashboard)", d, "page.tsx">> : d \in ListedSubdirs}
    \cup {<<"panel", "app", "(dashboard)", d, "loading.tsx">> : d \in ListedSubdirs \ {"dashboard"}}

\* the directories the listed paths pass through without listing them
ListedAncestors ==
    {<<"panel">>, <<"panel", "app", "api">>, <<"panel", "app", "(auth)">>}

ListedPaths == ListedDirs \cup ListedFiles \cup ListedAncestors

UsersPage == <<"panel", "app", "(dashboard)", "users", "page.tsx">>

UsersLoading == <<"panel", "app", "(dashboard)", "users", "loading.tsx">>

DashboardLoading == <<"panel", "app", "(dashboard)", "dashboard", "loading.tsx">>

AuthLayout == <<"panel", "app", "(auth)", "layout.tsx">>

\* what the first k calls of the script leave of a filesystem f when each of
\* them succeeds: the files they name are empty, the directories they name
\* and the directories above those exist, everything else is as in f
TreeAfter(f, k) ==
    [p \in Paths |->
        IF \E i \in 1..k : Steps[i].op = "create_file" /\ Steps[i].path = p
           THEN "empty"
        ELSE IF \E i \in 1..k : Steps[i].op = "makedirs" /\ p \in Prefixes(Steps[i].path)
           THEN "dir"
        ELSE f[p]]

Started == status \in {"running", "done", "failed"}

\* ---------------------------------------------------------------- claims

\* C1: after a run that started on a clean disk has completed, every listed
\* directory is a directory and every one of the 38 listed files is a
\* zero-byte regular file.
C1_CleanRunCreatesTable ==
    (status = "done" /\ fsStart = CleanFs) =>
        /\ \A d \in ListedDirs : fs[d] = "dir"
        /\ \A f \in ListedFiles : fs[f] = "empty"
        /\ Cardinality({p \in Paths : fs[p] = "empty"}) = 38

C1_Witness == status = "done" /\ fsStart = CleanFs /\ fs[app_dir] = "dir"

\* C2: a run that directly follows a successful run does not fail, and the
\* tree stays the one the first run left (the tree at the start of the second).
C2_SecondRunIdempotent ==
    (prevStatus = "done" /\ Started) => (status # "failed" /\ fs = fsStart)

C2_Witness == prevStatus = "done" /\ status = "done"

\* C3: whenever a create_file call is about to be attempted, the parent
\* directory of its path exists as a directory.
C3_ParentBeforeFile ==
    AtCall("create_file") => fs[Parent(Steps[pc].path)] = "dir"

\* the call for app/(auth)/layout.tsx in a run that found no app/(auth)
C3_Witness ==
    /\ AtCall("create_file")
    /\ Steps[pc].path = AuthLayout
    /\ fsStart[Parent(AuthLayout)] = "none"

\* C4: a run that starts while panel/app is a plain file takes one step only:
\* its first call fails, and the filesystem is left as it was.
C4_RootIsFile ==
    [][(status = "running" /\ fsStart[<<"panel", "app">>] \in FileKinds) =>
          (pc = 1 /\ status' = "failed" /\ exitCode' # 0 /\ fs' = fs /\ fs = fsStart)]_vars

C4_Witness ==
    status = "failed" /\ fsStart[<<"panel", "app">>] \in FileKinds /\ stderr = "FileExistsError"

\* C5 as stated: when call k fails, the tree is exactly what the first k-1
\* calls of the run produced.
C5_ExactPrefix == status = "failed" => fs = TreeAfter(fsStart, pc - 1)

\* C5 amended: when call k fails, nothing the first k-1 calls produced is
\* undone and no later call has acted; the tree is what the first k-1 calls
\* produced, plus, when call k is a makedirs, the missing directories above
\* its target that it made before it failed.
C5_PrefixAndAncestors ==
    status = "failed" =>
        LET expected == TreeAfter(fsStart, pc - 1)
        IN  \A p \in Paths :
               \/ fs[p] = expected[p]
               \/ /\ Steps[pc].op = "makedirs"
                  /\ p \in Prefixes(Parent(Steps[pc].path))
                  /\ expected[p] = "none"
                  /\ fs[p] = "dir"

\* a run aborted after some calls succeeded
C5_Witness == status = "failed" /\ pc > 1 /\ fs # fsStart /\ fs = TreeAfter(fsStart, pc - 1)

\* C6: the message is on standard output and the exit status is 0 only when
\* every listed directory and file exists; a failed run has printed nothing
\* and exits non-zero.
C6_MessageOnlyAfterSuccess ==
    /\ (stdout # <<>> \/ exitCode = 0) =>
          /\ status = "done"
          /\ stdout = <<Message>>
          /\ exitCode = 0
          /\ \A d \in ListedDirs : fs[d] = "dir"
          /\ \A f \in ListedFiles : fs[f] \in FileKinds
    /\ status = "failed" => (stdout = <<>> /\ exitCode = 1)

\* a run that printed the message after an earlier run had failed
C6_Witness == status = "done" /\ stdout = <<Message>> /\ prevStatus = "failed"

\* C7: after a run from a clean disk users/page.tsx and users/loading.tsx are
\* empty files and dashboard/loading.tsx does not exist; every listed
\* subdirectory has page.tsx, every one but dashboard has loading.tsx, and at
\* no point of the run does a path exist that is not listed.
C7_DashboardFiles ==
    /\ (status = "done" /\ fsStart = CleanFs) =>
          /\ fs[UsersPage] = "empty"
          /\ fs[UsersLoading] = "empty"
          /\ fs[DashboardLoading] = "none"
          /\ \A d \in ListedSubdirs :
                /\ fs[<<"panel", "app", "(dashboard)", d, "page.tsx">>] = "empty"
                /\ d # "dashboard" =>
                      fs[<<"panel", "app", "(dashboard)", d, "loading.tsx">>] = "empty"
    /\ (Started /\ fsStart = CleanFs) =>
          \A p \in Paths : fs[p] # "none" => p \in ListedPaths

C7_Witness == status = "done" /\ fsStart = CleanFs /\ fs[UsersLoading] = "empty"

\* C8: a run that follows an aborted run fails only if the environment
\* refuses a call again, and when it completes the tree is the tree of a single
\* successful run on a clean disk.
C8_RecoveryByRerun ==
    (prevStatus = "failed" /\ Started) =>
        /\ status = "failed" => stderr = "OSError"
        /\ status = "done" => fs = TreeAfter(CleanFs, NSteps)

\* a completed run that started on the partial tree an aborted run left
C8_Witness ==
    /\ prevStatus = "failed"
    /\ status = "done"
    /\ fsStart # CleanFs
    /\ fsStart # fs

\* C9: after any successful run, whatever the disk held before, every listed
\* file has length zero.
C9_Truncates == status = "done" => \A f \in ListedFiles : fs[f] = "empty"

\* a successful run that found a non-empty file at a listed path
C9_Witness == status = "done" /\ \E f \in ListedFiles : fsStart[f] = "data"

\* C10: a step of a run removes nothing; it changes a path only by creating a
\* listed directory or file (or a directory the listed paths pass through)
\* where nothing was, or by truncating a listed file.
C10_Frame ==
    [][status = "running" =>
          \A p \in Paths :
             \/ fs'[p] = fs[p]
             \/ fs[p] = "none" /\ fs'[p] = "dir" /\ p \in ListedDirs \cup ListedAncestors
             \/ fs[p] = "none" /\ fs'[p] = "empty" /\ p \in ListedFiles
             \/ fs[p] = "data" /\ fs'[p] = "empty" /\ p \in ListedFiles]_vars

\* a completed run on a disk that held a file the script does not list
C10_Witness == status = "done" /\ fsStart[<<"panel", "README.md">>] = "data"

====
